---- MODULE Spec2Model ----
(***************************************************************************)
(* data2json-api: the POST /v1 handler (key check, credit lookup, body     *)
(* validation, metering gate, retried generation, usage persistence), the  *)
(* RetryablePromise.retry driver and the schema synthesizer.               *)
(*                                                                         *)
(* Code between two awaits runs atomically on the single JS thread, so one *)
(* action is one such segment of the handler.  Requests interleave at the  *)
(* awaits only.                                                            *)
(***************************************************************************)
EXTENDS Integers, Sequences, FiniteSets, TLC

\* ------------------------------------------------------------------ bounds

\* concurrent requests in flight
NumReqs == 2
\* largest usage.total_tokens one completion reports
MaxUsage == 1
\* the credit balance of the subscribed caller before any request
MaxCredits == 3
\* largest retry budget the stand-alone driver is started with
MaxRetries == 3
\* longest array among the templates given to the schema synthesizer
MaxItems == 2

\* ------------------------------------------------- program constants

\* minLength(24) / maxLength(32) of the X-API-KEY pipe
MinKeyLength == 24
MaxKeyLength == 32
\* the retry budget the handler passes to RetryablePromise.retry
HandlerRetries == 1

\* ------------------------------------------------------------ JSON values

JUndef == [t |-> "undefined"]
JNull == [t |-> "null"]
JStr(s) == [t |-> "string", v |-> s]
JNum(n) == [t |-> "number", v |-> n]
JBool(b) == [t |-> "boolean", v |-> b]
JArr(items) == [t |-> "array", items |-> items]
JObj(fields) == [t |-> "object", fields |-> fields]

\* own enumerable keys of a value (for .. in / hasOwnProperty)
OwnKeys(x) == IF x.t = "object" THEN DOMAIN x.fields ELSE {}

\* x[k] for an object key
Get(x, k) == IF x.t = "object" /\ k \in DOMAIN x.fields THEN x.fields[k] ELSE JUndef

\* First taking the last element of an array
FirstIsLast(x) ==
    IF x.t = "array" /\ Len(x.items) > 0 THEN x.items[Len(x.items)]
    ELSE IF x.t = "object" THEN Get(x, "0")
    ELSE JUndef

\* x?.[0]
First(x) ==
    IF x.t = "array" /\ Len(x.items) > 0 THEN x.items[1]
    ELSE IF x.t = "object" THEN Get(x, "0")
    ELSE JUndef

\* ------------------------------------------------------ schema inference

types == {"object", "array", "string", "boolean", "number"}

\* typeof x
TypeOf(x) ==
    CASE x.t = "undefined" -> "undefined"
      [] x.t = "string" -> "string"
      [] x.t = "number" -> "number"
      [] x.t = "boolean" -> "boolean"
      [] OTHER -> "object"

\* inferDataType without the Array.isArray test
inferDataTypeNoArray(schema) ==
    IF ~("type" \in OwnKeys(schema))
    THEN TypeOf(schema)
    ELSE LET m == Get(schema, "type")
         IN IF m.t = "string" /\ m.v \in types THEN m.v ELSE "object"

inferDataType(schema) ==
    IF ~("type" \in OwnKeys(schema))
    THEN IF schema.t = "array" THEN "array" ELSE TypeOf(schema)
    ELSE LET m == Get(schema, "type")
         IN IF m.t = "string" /\ m.v \in types THEN m.v ELSE "object"

\* valibot schemas
VNullable(k) == [s |-> "nullable", of |-> k]
VArray(item) == [s |-> "array", item |-> item]
VObject(shape) == [s |-> "object", shape |-> shape]

RECURSIVE generateDynamicSchema(_)
generateDynamicSchema(schema) ==
    LET type == inferDataType(schema)
    IN CASE type = "object" ->
              VObject([key \in OwnKeys(schema) \ {"type"} |->
                          generateDynamicSchema(Get(schema, key))])
         [] type = "array" -> VArray(generateDynamicSchema(First(schema)))
         [] type = "string" -> VNullable("string")
         [] type = "boolean" -> VNullable("boolean")
         [] type = "number" -> VNullable("number")
         [] OTHER -> VNullable("string")

\* valibot parse(schema, value): [ok, out]; object() keeps the declared keys only
RECURSIVE VParse(_, _)
VParse(schema, x) ==
    CASE schema.s = "nullable" ->
           IF x.t = "null" THEN [ok |-> TRUE, out |-> x]
           ELSE [ok |-> x.t = schema.of, out |-> x]
      [] schema.s = "array" ->
           IF x.t # "array" THEN [ok |-> FALSE, out |-> x]
           ELSE LET rs == [i \in 1..Len(x.items) |-> VParse(schema.item, x.items[i])]
                IN [ok |-> \A i \in 1..Len(x.items) : rs[i].ok,
                    out |-> JArr([i \in 1..Len(x.items) |-> rs[i].out])]
      [] OTHER ->
           IF x.t \notin {"object", "array"} THEN [ok |-> FALSE, out |-> x]
           ELSE LET at(k) == IF x.t = "array" THEN JUndef ELSE Get(x, k)
                    rs == [k \in DOMAIN schema.shape |-> VParse(schema.shape[k], at(k))]
                IN [ok |-> \A k \in DOMAIN schema.shape : rs[k].ok,
                    out |-> JObj([k \in DOMAIN schema.shape |-> rs[k].out])]

\* ------------------------------------------------------- request inputs

\* X-API-KEY headers a client may present; KeyLength is the string's length
Headers == {"absent", "short", "known", "nosub", "unknown", "long"}
KeyLength(h) ==
    CASE h = "short" -> MinKeyLength - 1
      [] h = "known" -> MinKeyLength
      [] h = "unknown" -> MinKeyLength + 1
      [] h = "nosub" -> MaxKeyLength
      [] OTHER -> MaxKeyLength + 1

\* rows of the keys table (never written by the handler)
keys == {[key |-> "known", user_id |-> "u1"], [key |-> "nosub", user_id |-> "u2"]}

\* the template of the well-formed request
F1 == JObj([name |-> JStr("x")])

\* request bodies: text that is not JSON, or a JSON document
NotJson == [json |-> FALSE, value |-> JUndef]
Json(v) == [json |-> TRUE, value |-> v]
Bodies ==
    { NotJson,
      Json(JObj(<<>>)),
      Json(JObj([input |-> JStr("Jane, age 30"), format |-> JStr("x")])),
      Json(JObj([input |-> JStr("Jane, age 30"), format |-> F1])) }

\* message.content of a completion: text that is not JSON, or JSON text
Answers ==
    { NotJson,
      Json(JObj([name |-> JNum(30)])),
      Json(JObj([name |-> JStr("Jane"), age |-> JNum(30)])) }

\* ------------------------------------------------------------- responses

HeaderNotFound == "Unauthorized: X-API-KEY header not found!"
InvalidKey == "Unauthorized: Invalid API Key"
NoSubscription == "Unauthorized: Please completed the subscription process in the dashboard"
NotEnoughCredits == "Unauthorized: Not enough credits available."

\* the handler returned without a response
NoRes == [status |-> 0]
R401(msg) == [status |-> 401, error |-> [kind |-> "string", text |-> msg], data |-> JNull]
\* lines 201-219, which no throw reaches: the issues by the field they are at
R400(issues) == [status |-> 400, error |-> [kind |-> "issues", map |-> issues], data |-> JNull]
R200(data, used) ==
    [status |-> 200, error |-> [kind |-> "null"], data |-> data, tokensUsed |-> used]

\* ------------------------------------------------------------ the handler

\* Swallowed answering from the outer catch, as a rethrown error would
SwallowedRethrown == R401(HeaderNotFound)

\* "catch (error) {}" of line 199: the handler falls off its end
Swallowed == NoRes

\* HeaderOk with minLength one too small
HeaderOkShort(h) ==
    /\ h # "absent"
    /\ KeyLength(h) >= MinKeyLength - 1
    /\ KeyLength(h) <= MaxKeyLength

\* parse(pipe(string(), minLength(24), maxLength(32)), header)
HeaderOk(h) ==
    /\ h # "absent"
    /\ KeyLength(h) >= MinKeyLength
    /\ KeyLength(h) <= MaxKeyLength

\* supabase.from("keys").select().eq("key", apiToken).single(): the row or none
KeyRows(apiToken) == {row \in keys : row.key = apiToken}

\* parse(payloadSchema, body): the top-level fields with an issue
PayloadIssues(v) ==
    {k \in {"input", "format"} :
        \/ k = "input" /\ Get(v, k).t # "string"
        \/ k = "format" /\ Get(v, k).t \notin {"object", "array"}}

PayloadOk(b) == b.json /\ b.value.t = "object" /\ PayloadIssues(b.value) = {}

\* the three fixed messages of completionConfig (the instruction, the example
\* prompt and the example answer) are part of every estimate
PromptOverhead == 1

\* new GPTTokens(completionConfig).usedTokens: grows with the prompt; the
\* prompt's variable part is the template, counted here by its fields
UsedTokens(input, format) == PromptOverhead + Cardinality(OwnKeys(format))

\* GateAllows letting a balance equal to the estimate through
GateAllowsEqual(credits, estimate) == credits >= estimate

\* !(+creditsAvailable.data.credits > usageEstimate.usedTokens) denies
GateAllows(credits, estimate) == credits > estimate

\* The credits column holds decimal text, a sequence of characters.
Digits == <<"0", "1", "2", "3", "4", "5", "6", "7", "8", "9">>
DigitValue(c) == CHOOSE d \in 0..9 : Digits[d + 1] = c

RECURSIVE DigitsValue(_)
DigitsValue(s) ==
    IF s = <<>> THEN 0
    ELSE DigitsValue(SubSeq(s, 1, Len(s) - 1)) * 10 + DigitValue(s[Len(s)])

\* "+credits": the number a decimal string denotes
ToNumber(credits) ==
    IF credits # <<>> /\ credits[1] = "-" THEN 0 - DigitsValue(Tail(credits))
    ELSE DigitsValue(credits)

RECURSIVE NatToText(_)
NatToText(n) ==
    IF n < 10 THEN <<Digits[n + 1]>>
    ELSE NatToText(n \div 10) \o <<Digits[(n % 10) + 1]>>

\* "(n).toString()"
NumberToString(n) == IF n < 0 THEN <<"-">> \o NatToText(0 - n) ELSE NatToText(n)

\* tokensUsed += total_tokens, under "if (openaiResponse.usage?.total_tokens)"
AddUsage(tokensUsed, total_tokens) ==
    IF total_tokens # 0 THEN tokensUsed + total_tokens ELSE tokensUsed

\* AttemptResult resolving with the parsed answer instead of parse()'s output
AttemptResultRaw(dynamicSchema, answer) ==
    IF ~answer.json THEN [ok |-> FALSE, out |-> JUndef]
    ELSE [ok |-> VParse(dynamicSchema, answer.value).ok, out |-> answer.value]

\* JSON.parse(answer) then parse(dynamicSchema, jsonAnswer): what the attempt
\* resolves with, or ok = FALSE when either throws (the attempt rejects)
AttemptResult(dynamicSchema, answer) ==
    IF ~answer.json THEN [ok |-> FALSE, out |-> JUndef]
    ELSE VParse(dynamicSchema, answer.value)

\* RetryAgain retrying once more at a budget of zero
RetryAgainAtZero(retries) == retries >= 0

\* the .catch of RetryablePromise.retry: retry with one less, or reject
RetryAgain(retries) == retries > 0

\* credits: (+creditsAvailable.data.credits - tokensUsed).toString()
NewCredits(credits, tokensUsed) == NumberToString(ToNumber(credits) - tokensUsed)

\* --------------------------------------------------------------- state

Reqs == 1..NumReqs

VARIABLES
    tokens,       \* the tokens table: user_id -> credits
    tokens_used,  \* the rows of the tokens_used table, each with its request
    req,          \* each request's locals and its position in the handler
    res,          \* the response each request's handler returned
    calls,        \* collaborator calls each request has made
    credits0,     \* the balance before any request
    drv,          \* a stand-alone run of RetryablePromise.retry
    syn           \* a stand-alone run of the schema synthesizer

vars == <<tokens, tokens_used, req, res, calls, credits0, drv, syn>>

NoCalls == [keys |-> 0, tokens |-> 0, json |-> 0, completions |-> 0,
            insert |-> 0, update |-> 0]

NewReq ==
    [pc |-> "header", header |-> "absent", user_id |-> "", credits |-> <<>>,
     body |-> NotJson, tokensUsed |-> 0, reported |-> 0, retries |-> 0,
     answer |-> NotJson, response |-> JUndef,
     inserted |-> FALSE, updated |-> FALSE, gates |-> 0, threw |-> ""]

NewSyn ==
    [phase |-> "idle", template |-> JUndef, type |-> "", schema |-> VNullable(""),
     value |-> JUndef, parsed |-> [ok |-> FALSE, out |-> JUndef]]

NewDrv ==
    [state |-> "Pending", maxRetries |-> 0, retries |-> 0, invoked |-> 0,
     outcomes |-> <<>>, result |-> "", error |-> ""]

Init ==
    /\ credits0 = MaxCredits
    /\ tokens = [u \in {"u1"} |-> NumberToString(credits0)]
    /\ tokens_used = {}
    /\ req = [r \in Reqs |-> NewReq]
    /\ res = [r \in Reqs |-> NoRes]
    /\ calls = [r \in Reqs |-> NoCalls]
    /\ drv = NewDrv
    /\ syn = NewSyn

\* the handler returns `response` (NoRes: it returns nothing)
Return(r, q, response) ==
    /\ req' = [req EXCEPT ![r] = [q EXCEPT !.pc = "done"]]
    /\ res' = [res EXCEPT ![r] = response]

Goto(r, q, pc) ==
    /\ req' = [req EXCEPT ![r] = [q EXCEPT !.pc = pc]]
    /\ res' = res

Called(r, what) == calls' = [calls EXCEPT ![r][what] = @ + 1]

\* lines 73-90: the header is validated; a valid one is looked up
CheckHeader(r) ==
    /\ req[r].pc = "header"
    /\ \E h \in Headers :
         LET q == [req[r] EXCEPT !.header = h]
         IN IF ~HeaderOk(h)
            THEN Return(r, q, R401(HeaderNotFound)) /\ calls' = calls
            ELSE Goto(r, q, "keys") /\ Called(r, "keys")
    /\ UNCHANGED <<tokens, tokens_used, credits0, drv, syn>>

\* KeyLookup asking for the credits before it looks at the key record
KeyLookupEager(r) ==
    /\ req[r].pc = "keys"
    /\ Called(r, "tokens")
    /\ LET rows == KeyRows(req[r].header)
       IN IF rows = {}
          THEN Return(r, req[r], R401(InvalidKey))
          ELSE \E row \in rows : Goto(r, [req[r] EXCEPT !.user_id = row.user_id], "tokens")
    /\ UNCHANGED <<tokens, tokens_used, credits0, drv, syn>>

\* lines 86-103: the key lookup answers; a known key's credits are looked up
KeyLookup(r) ==
    /\ req[r].pc = "keys"
    /\ LET rows == KeyRows(req[r].header)
       IN IF rows = {}
          THEN Return(r, req[r], R401(InvalidKey)) /\ calls' = calls
          ELSE /\ \E row \in rows : Goto(r, [req[r] EXCEPT !.user_id = row.user_id], "tokens")
               /\ Called(r, "tokens")
    /\ UNCHANGED <<tokens, tokens_used, credits0, drv, syn>>

\* lines 221-231: the outer catch answers whatever was thrown
OuterCatch == R401(HeaderNotFound)

\* lines 200-220: the catch around the lookups answers 400 with the issues of
\* a ValiError; on any other error it reads .issues of an error that has
\* none, and that TypeError is thrown on to the outer catch
MiddleCatch(error) ==
    IF error.name = "ValiError" THEN R400(error.issues) ELSE OuterCatch

\* lines 86-103: the awaited lookup rejects instead of answering (the
\* client throws on a reply it cannot read)
CollaboratorThrows(r) ==
    /\ req[r].pc \in {"keys", "tokens"}
    /\ Return(r, [req[r] EXCEPT !.threw = req[r].pc], MiddleCatch([name |-> "Error"]))
    /\ UNCHANGED <<tokens, tokens_used, calls, credits0, drv, syn>>

\* lines 99-118: the credit lookup answers; with a record the body is read
CreditLookup(r) ==
    /\ req[r].pc = "tokens"
    /\ IF req[r].user_id \notin DOMAIN tokens
       THEN Return(r, req[r], R401(NoSubscription)) /\ calls' = calls
       ELSE /\ Goto(r, [req[r] EXCEPT !.credits = tokens[req[r].user_id]], "json")
            /\ Called(r, "json")
    /\ UNCHANGED <<tokens, tokens_used, credits0, drv, syn>>

\* ParseBody letting one request of a caller at a time past the gate
ParseBodyExclusive(r) ==
    /\ req[r].pc = "json"
    /\ \E b \in Bodies :
         LET q == [req[r] EXCEPT !.body = b, !.tokensUsed = 0]
             input == Get(b.value, "input")
             format == Get(b.value, "format")
             g == [q EXCEPT !.gates = @ + 1]
             busy == \E o \in Reqs \ {r} :
                        /\ req[o].user_id = q.user_id
                        /\ req[o].pc \in {"completion", "pending", "persist"}
         IN IF ~PayloadOk(b)
            THEN Return(r, q, Swallowed) /\ calls' = calls
            ELSE IF busy \/ ~GateAllows(ToNumber(q.credits), UsedTokens(input, format))
            THEN Return(r, g, R401(NotEnoughCredits)) /\ calls' = calls
            ELSE /\ Goto(r, [g EXCEPT !.retries = HandlerRetries], "completion")
                 /\ Called(r, "completions")
    /\ UNCHANGED <<tokens, tokens_used, credits0, drv, syn>>

\* lines 117-163: the body arrives; it is validated, the gate is evaluated and
\* the first attempt issues its completion call.  A throw of ctx.req.json()
\* or of parse() lands in the empty catch of line 199.
ParseBody(r) ==
    /\ req[r].pc = "json"
    /\ \E b \in Bodies :
         LET q == [req[r] EXCEPT !.body = b, !.tokensUsed = 0]
             input == Get(b.value, "input")
             format == Get(b.value, "format")
             g == [q EXCEPT !.gates = @ + 1]
         IN IF ~PayloadOk(b)
            THEN Return(r, q, Swallowed) /\ calls' = calls
            ELSE IF ~GateAllows(ToNumber(q.credits), UsedTokens(input, format))
            THEN Return(r, g, R401(NotEnoughCredits)) /\ calls' = calls
            ELSE /\ Goto(r, [g EXCEPT !.retries = HandlerRetries], "completion")
                 /\ Called(r, "completions")
    /\ UNCHANGED <<tokens, tokens_used, credits0, drv, syn>>

\* CompletionArrives with the metering gate inside the executor, evaluated
\* again before every further attempt
CompletionArrivesRegated(r) ==
    /\ req[r].pc = "completion"
    /\ \E total_tokens \in 0..MaxUsage, answer \in Answers :
         LET dynamicSchema == generateDynamicSchema(Get(req[r].body.value, "format"))
             got == AttemptResult(dynamicSchema, answer)
             q == [req[r] EXCEPT !.tokensUsed = AddUsage(@, total_tokens),
                                 !.reported = @ + total_tokens]
         IN IF got.ok
            THEN /\ Goto(r, [q EXCEPT !.response = got.out, !.answer = answer], "persist")
                 /\ calls' = [calls EXCEPT ![r]["insert"] = @ + 1, ![r]["update"] = @ + 1]
            ELSE IF RetryAgain(q.retries)
            THEN /\ Goto(r, [q EXCEPT !.retries = @ - 1, !.gates = @ + 1], "completion")
                 /\ Called(r, "completions")
            ELSE Return(r, q, Swallowed) /\ calls' = calls
    /\ UNCHANGED <<tokens, tokens_used, credits0, drv, syn>>

\* lines 161-177 and part_000 12-17: a completion arrives.  The attempt adds
\* its usage and resolves or rejects; a rejection is retried while the budget
\* lasts, and the last one is thrown into the empty catch of line 199.  A
\* resolved retry goes on to Promise.all, which issues both writes.
CompletionArrives(r) ==
    /\ req[r].pc = "completion"
    /\ \E total_tokens \in 0..MaxUsage, answer \in Answers :
         LET dynamicSchema == generateDynamicSchema(Get(req[r].body.value, "format"))
             got == AttemptResult(dynamicSchema, answer)
             q == [req[r] EXCEPT !.tokensUsed = AddUsage(@, total_tokens),
                                 !.reported = @ + total_tokens]
         IN IF got.ok
            THEN /\ Goto(r, [q EXCEPT !.response = got.out, !.answer = answer], "persist")
                 /\ calls' = [calls EXCEPT ![r]["insert"] = @ + 1, ![r]["update"] = @ + 1]
            ELSE IF RetryAgain(q.retries)
            THEN /\ Goto(r, [q EXCEPT !.retries = @ - 1], "completion")
                 /\ Called(r, "completions")
            ELSE Return(r, q, Swallowed) /\ calls' = calls
    /\ UNCHANGED <<tokens, tokens_used, credits0, drv, syn>>

\* line 161: the completion call rejects (transport error).  The executor is
\* an async function: its throw rejects the promise the executor returned,
\* which nobody holds; neither resolve nor reject is called, so the
\* RetryablePromise and the handler awaiting it stay pending for good.
CompletionFails(r) ==
    /\ req[r].pc = "completion"
    /\ Goto(r, req[r], "pending")
    /\ UNCHANGED <<tokens, tokens_used, calls, credits0, drv, syn>>

\* InsertLands with the insert issued by the executor after each attempt
InsertLandsEarly(r) ==
    /\ req[r].pc \in {"completion", "persist"}
    /\ ~req[r].inserted
    /\ tokens_used' = tokens_used \cup
           {[used |-> req[r].tokensUsed, user_id |-> req[r].user_id, request |-> r]}
    /\ Goto(r, [req[r] EXCEPT !.inserted = TRUE], req[r].pc)
    /\ UNCHANGED <<tokens, calls, credits0, drv, syn>>

\* lines 180-183: the usage insert reaches the table
InsertLands(r) ==
    /\ req[r].pc = "persist"
    /\ ~req[r].inserted
    /\ tokens_used' = tokens_used \cup
           {[used |-> req[r].tokensUsed, user_id |-> req[r].user_id, request |-> r]}
    /\ Goto(r, [req[r] EXCEPT !.inserted = TRUE], "persist")
    /\ UNCHANGED <<tokens, calls, credits0, drv, syn>>

\* lines 184-191: the credits update reaches the table
UpdateLands(r) ==
    /\ req[r].pc = "persist"
    /\ ~req[r].updated
    /\ tokens' = [u \in DOMAIN tokens |->
                     IF u = req[r].user_id
                     THEN NewCredits(req[r].credits, req[r].tokensUsed)
                     ELSE tokens[u]]
    /\ Goto(r, [req[r] EXCEPT !.updated = TRUE], "persist")
    /\ UNCHANGED <<tokens_used, calls, credits0, drv, syn>>

\* Persisted not waiting for the credits update
PersistedInsertOnly(q) == q.inserted

\* Promise.all of line 179 is fulfilled
Persisted(q) == q.inserted /\ q.updated

\* lines 194-198: the success response
Respond(r) ==
    /\ req[r].pc = "persist"
    /\ Persisted(req[r])
    /\ Return(r, req[r], R200(req[r].response, req[r].tokensUsed))
    /\ UNCHANGED <<tokens, tokens_used, calls, credits0, drv, syn>>

Next ==
    \E r \in Reqs :
        \/ CheckHeader(r)
        \/ KeyLookup(r)
        \/ CreditLookup(r)
        \/ CollaboratorThrows(r)
        \/ ParseBody(r)
        \/ CompletionArrives(r)
        \/ CompletionFails(r)
        \/ InsertLands(r)
        \/ UpdateLands(r)
        \/ Respond(r)

Spec == Init /\ [][Next]_vars

\* -------------------------------------------- RetryablePromise.retry alone

\* what an attempt may resolve with, and what it may reject with
Results == {"first", "second"}
Errors == {"transport", "parse", "schema"}

Handler == <<tokens, tokens_used, req, res, calls, credits0, syn>>

\* retry(maxRetries, executor): new RetryablePromise(executor) runs the executor
RetryStart ==
    /\ drv.state = "Pending"
    /\ \E maxRetries \in 0..MaxRetries :
         drv' = [drv EXCEPT !.state = "Attempting", !.maxRetries = maxRetries,
                            !.retries = maxRetries, !.invoked = 1]
    /\ UNCHANGED Handler

\* the executor calls resolve: the promise of retry fulfils with the value
AttemptResolves ==
    /\ drv.state = "Attempting"
    /\ \E value \in Results :
         drv' = [drv EXCEPT !.state = "Succeeded", !.result = value,
                            !.outcomes = Append(@, [signal |-> "resolve", with |-> value])]
    /\ UNCHANGED Handler

\* AttemptRejects rejecting with the error of the first attempt
AttemptRejectsKeepsFirst ==
    /\ drv.state = "Attempting"
    /\ \E error \in Errors :
         LET outcome == [signal |-> "reject", with |-> error]
             first == Append(drv.outcomes, outcome)[1].with
         IN IF RetryAgain(drv.retries)
            THEN drv' = [drv EXCEPT !.retries = @ - 1, !.invoked = @ + 1,
                                    !.outcomes = Append(@, outcome)]
            ELSE drv' = [drv EXCEPT !.state = "Exhausted", !.error = first,
                                    !.outcomes = Append(@, outcome)]
    /\ UNCHANGED Handler

\* the executor calls reject (or throws before its first await): the catch
\* of line 12 runs the executor again with one retry less, or rejects
AttemptRejects ==
    /\ drv.state = "Attempting"
    /\ \E error \in Errors :
         LET outcome == [signal |-> "reject", with |-> error]
         IN IF RetryAgain(drv.retries)
            THEN drv' = [drv EXCEPT !.retries = @ - 1, !.invoked = @ + 1,
                                    !.outcomes = Append(@, outcome)]
            ELSE drv' = [drv EXCEPT !.state = "Exhausted", !.error = error,
                                    !.outcomes = Append(@, outcome)]
    /\ UNCHANGED Handler

RetryNext == RetryStart \/ AttemptResolves \/ AttemptRejects

RetrySpec == Init /\ [][RetryNext]_vars

\* retry is called, and every run of the executor calls resolve or reject
RetryFairSpec ==
    /\ Init
    /\ [][RetryNext]_vars
    /\ WF_vars(RetryStart)
    /\ WF_vars(AttemptResolves \/ AttemptRejects)

\* ------------------------------------------- the schema synthesizer alone

\* {type: K}
Marker(K) == JObj([type |-> JStr(K)])

\* template nodes without children: example values, an absent node, a marker
\* of each kind and one of a kind the code does not know
Leaves ==
    {JStr("x"), JNum(1), JBool(TRUE), JNull, JUndef}
        \cup {Marker(K) : K \in types \cup {"date"}}

SeqsUpTo(S, n) == UNION {[1..m -> S] : m \in 0..n}

\* the templates the synthesizer is given
Templates ==
    Leaves
        \cup {JArr(items) : items \in SeqsUpTo(Leaves, MaxItems)}
        \cup {JObj([a |-> l]) : l \in Leaves \cup {JArr(<<>>), JArr(<<JNum(1)>>)}}
        \cup {JObj([name |-> l, score |-> m]) : l, m \in {JStr("x"), JNum(1), JNull, JUndef}}
        \cup {JObj([type |-> t, name |-> JStr("x")]) :
                  t \in {JStr("string"), JStr("array"), JStr("date"), Marker("string")}}
        \cup {JObj([k \in {"type", "0"} |-> IF k = "type" THEN JStr("array") ELSE JNum(1)])}
        \cup {JArr(<<JObj([a |-> JArr(<<JStr("x"), JNum(1)>>)])>>)}

\* the values a synthesized schema is asked to parse
Values ==
    {JNull, JUndef, JStr("Jane"), JNum(30), JBool(FALSE),
     JArr(<<>>), JArr(<<JNull>>), JArr(<<JStr("a"), JNum(2)>>), JArr(<<JNum(2), JStr("a")>>),
     JObj(<<>>), JObj([a |-> JNull]), JObj([a |-> JStr("b"), b |-> JNum(2)]),
     JObj([name |-> JNull, score |-> JNull]), JObj([name |-> JStr("Jane"), score |-> JNum(30)])}

SchemaInit ==
    /\ credits0 = MaxCredits
    /\ tokens = [u \in {"u1"} |-> NumberToString(credits0)]
    /\ tokens_used = {}
    /\ req = [r \in Reqs |-> NewReq]
    /\ res = [r \in Reqs |-> NoRes]
    /\ calls = [r \in Reqs |-> NoCalls]
    /\ drv = NewDrv
    /\ \E schema \in Templates : syn = [NewSyn EXCEPT !.phase = "given", !.template = schema]

NotSyn == <<tokens, tokens_used, req, res, calls, credits0, drv>>

\* const type = inferDataType(schema)
Infer ==
    /\ syn.phase = "given"
    /\ syn' = [syn EXCEPT !.phase = "inferred", !.type = inferDataType(syn.template)]
    /\ UNCHANGED NotSyn

\* the switch on type returns the schema
Synthesize ==
    /\ syn.phase = "inferred"
    /\ syn' = [syn EXCEPT !.phase = "synthesized",
                          !.schema = generateDynamicSchema(syn.template)]
    /\ UNCHANGED NotSyn

\* parse(dynamicSchema, value)
Validate ==
    /\ syn.phase = "synthesized"
    /\ \E value \in Values :
         syn' = [syn EXCEPT !.phase = "parsed", !.value = value,
                            !.parsed = VParse(syn.schema, value)]
    /\ UNCHANGED NotSyn

SchemaNext == Infer \/ Synthesize \/ Validate

SchemaSpec == SchemaInit /\ [][SchemaNext]_vars

\* ------------------------------------------------------------- the claims

\* what the claims read off a request
Estimate(r) ==
    UsedTokens(Get(req[r].body.value, "input"), Get(req[r].body.value, "format"))
BalanceRead(r) == ToNumber(req[r].credits)
RowsOf(r) == {row \in tokens_used : row.request = r}
\* the handler got as far as the metering gate
ReachedGate(r) ==
    /\ req[r].pc \notin {"header", "keys", "tokens", "json"}
    /\ PayloadOk(req[r].body)
NoWrites(r) == calls[r].insert = 0 /\ calls[r].update = 0 /\ RowsOf(r) = {}

\* C1: generation starts only when the balance read is strictly greater than
\* the estimate; at balance <= estimate the request ends with the 401 "not
\* enough credits" and has made no completion call and no write.
C1_MeteringGate ==
    \A r \in Reqs :
        /\ calls[r].completions > 0 => ReachedGate(r) /\ BalanceRead(r) > Estimate(r)
        /\ ReachedGate(r) /\ BalanceRead(r) <= Estimate(r) =>
              /\ req[r].pc = "done"
              /\ res[r] = R401(NotEnoughCredits)
              /\ calls[r].completions = 0
              /\ NoWrites(r)

\* a request denied at a balance equal to its estimate, and one allowed at a
\* balance one above it
C1_Witness ==
    \E r, a \in Reqs :
        /\ ReachedGate(r) /\ BalanceRead(r) = Estimate(r)
        /\ res[r] = R401(NotEnoughCredits)
        /\ ReachedGate(a) /\ BalanceRead(a) = Estimate(a) + 1
        /\ calls[a].completions > 0

\* C2: retry(maxRetries, attempt) runs the attempt at most maxRetries + 1
\* times; once an attempt resolves, retry has that attempt's value and has
\* run no attempt after it.
C2_RetryBound ==
    /\ drv.invoked <= drv.maxRetries + 1
    /\ drv.invoked >= Len(drv.outcomes)
    /\ \A i \in 1..Len(drv.outcomes) :
          drv.outcomes[i].signal = "resolve" =>
             /\ i = Len(drv.outcomes)
             /\ drv.invoked = i
             /\ drv.state = "Succeeded"
             /\ drv.result = drv.outcomes[i].with

\* retry(MaxRetries, attempt) whose attempt fails MaxRetries times and then
\* resolves: MaxRetries + 1 runs, the last one's value returned
C2_Witness ==
    /\ drv.state = "Succeeded"
    /\ drv.maxRetries = MaxRetries
    /\ drv.invoked = MaxRetries + 1
    /\ drv.result = "second"

\* C3: every failed attempt is a rejection the driver sees: with budget left
\* another attempt is made and the budget drops by one, with none left the
\* failure is thrown to the caller of retry (the handler, which then returns).
C3_EveryFailureRetried ==
    [][\A r \in Reqs :
          (/\ req[r].pc = "completion"
           /\ req'[r] # req[r]
           /\ req'[r].pc # "persist")
          => IF req[r].retries > 0
             THEN /\ req'[r].pc = "completion"
                  /\ req'[r].retries = req[r].retries - 1
                  /\ calls'[r].completions = calls[r].completions + 1
             ELSE req'[r].pc = "done"]_vars

\* C4: with a valid key and a credit record, a body that is not
\* {input: string, format: object} is answered 400 with a field -> message
\* map and data null, and no completion call is made.
C4_BodyInvalidIs400 ==
    \A r \in Reqs :
        (/\ req[r].pc = "done"
         /\ calls[r].json > 0
         /\ ~PayloadOk(req[r].body))
        => /\ res[r].status = 400
           /\ res[r] = R400(res[r].error.map)
           /\ DOMAIN res[r].error.map \subseteq {"input", "format"}
           /\ calls[r].completions = 0

\* the header is absent or its length is outside [MinKeyLength, MaxKeyLength]
HeaderRefused(h) ==
    h = "absent" \/ KeyLength(h) < MinKeyLength \/ KeyLength(h) > MaxKeyLength

\* C5: a request whose X-API-KEY is absent or of a length outside [24,32]
\* ends with the 401 "X-API-KEY header not found!", data null, and has made
\* no collaborator call and no write.
C5_HeaderRefused ==
    \A r \in Reqs :
        req[r].pc # "header" /\ HeaderRefused(req[r].header) =>
            /\ req[r].pc = "done"
            /\ res[r] = R401(HeaderNotFound)
            /\ res[r].data = JNull
            /\ calls[r] = NoCalls
            /\ RowsOf(r) = {}

\* one request without the header and one with a key of 23 characters, both
\* answered
C5_Witness ==
    \E r, a \in Reqs :
        /\ req[r].header = "absent" /\ res[r] = R401(HeaderNotFound)
        /\ req[a].header = "short" /\ res[a] = R401(HeaderNotFound)

\* the key lookup answered, with no row; the credit lookup answered, with no
\* record
KeyUnknown(r) ==
    /\ calls[r].keys > 0 /\ req[r].pc # "keys" /\ req[r].threw # "keys"
    /\ KeyRows(req[r].header) = {}
NoCreditRecord(r) ==
    /\ calls[r].tokens > 0 /\ req[r].pc # "tokens" /\ req[r].threw # "tokens"
    /\ req[r].user_id \notin DOMAIN tokens
BodyRefused(r) == req[r].pc = "done" /\ calls[r].json > 0 /\ ~PayloadOk(req[r].body)
GateDenied(r) == ReachedGate(r) /\ ~(BalanceRead(r) > Estimate(r))

\* C6: the stages run in the order header, key lookup, credit lookup, body,
\* gate, generation, each at most once and only after every earlier one
\* passed; the first failing stage ends the request with its own response
\* and nothing of a later stage runs: an unknown key is answered "invalid
\* key" with no credit lookup made, a missing credit record "no subscription"
\* with the body never read.
C6_ErrorPrecedence ==
    \A r \in Reqs :
        /\ calls[r].keys <= 1 /\ calls[r].tokens <= 1 /\ calls[r].json <= 1
        /\ calls[r].keys > 0 => ~HeaderRefused(req[r].header)
        /\ calls[r].tokens > 0 => calls[r].keys > 0 /\ KeyRows(req[r].header) # {}
        /\ calls[r].json > 0 => calls[r].tokens > 0 /\ req[r].user_id \in DOMAIN tokens
        /\ calls[r].completions > 0 =>
              calls[r].json > 0 /\ PayloadOk(req[r].body) /\ ~GateDenied(r)
        /\ calls[r].insert > 0 => calls[r].completions > 0
        /\ req[r].pc # "header" /\ HeaderRefused(req[r].header) =>
              res[r] = R401(HeaderNotFound) /\ calls[r] = NoCalls
        /\ KeyUnknown(r) =>
              /\ res[r] = R401(InvalidKey)
              /\ calls[r] = [NoCalls EXCEPT !.keys = 1]
        /\ NoCreditRecord(r) =>
              /\ res[r] = R401(NoSubscription)
              /\ calls[r] = [NoCalls EXCEPT !.keys = 1, !.tokens = 1]
        /\ BodyRefused(r) =>
              /\ calls[r] = [NoCalls EXCEPT !.keys = 1, !.tokens = 1, !.json = 1]
              /\ res[r] # R401(NotEnoughCredits)
        /\ GateDenied(r) =>
              /\ res[r] = R401(NotEnoughCredits)
              /\ calls[r] = [NoCalls EXCEPT !.keys = 1, !.tokens = 1, !.json = 1]

\* an unknown key answered "invalid key" beside a key without credit record
\* answered "no subscription"
C6_Witness ==
    \E r, a \in Reqs :
        /\ req[r].header = "unknown" /\ res[r] = R401(InvalidKey)
        /\ req[a].header = "nosub" /\ res[a] = R401(NoSubscription)

RECURSIVE SumUsed(_)
SumUsed(rows) ==
    IF rows = {} THEN 0
    ELSE LET row == CHOOSE x \in rows : TRUE
         IN row.used + SumUsed(rows \ {row})

\* C7: a request that entered the retry loop has, once it is over, exactly
\* one row in the usage ledger, and that row holds the sum of the tokens all
\* its attempts reported.
C7_UsageRecordedOnce ==
    \A r \in Reqs :
        req[r].pc = "done" /\ calls[r].completions > 0 =>
            /\ Cardinality(RowsOf(r)) = 1
            /\ SumUsed(RowsOf(r)) = req[r].reported

Succeeded(r) == res[r].status = 200

RECURSIVE SumTokensUsed(_)
SumTokensUsed(rs) ==
    IF rs = {} THEN 0
    ELSE LET r == CHOOSE x \in rs : TRUE
         IN req[r].tokensUsed + SumTokensUsed(rs \ {r})

\* C8: once every request of the caller is over, the balance is the initial
\* balance minus the tokensUsed of all the successful requests.
C8_BalanceIsInitialMinusUsed ==
    (\A r \in Reqs : req[r].pc \in {"header", "done"}) =>
        ToNumber(tokens["u1"]) = credits0 - SumTokensUsed({r \in Reqs : Succeeded(r)})

\* C9: a 200 response has error null and, as data, the output of parse() on
\* the answer of the attempt that resolved; every other response has an
\* error and data null.
C9_NoPartialOutput ==
    \A r \in Reqs :
        /\ Succeeded(r) =>
              LET dynamicSchema == generateDynamicSchema(Get(req[r].body.value, "format"))
              IN /\ req[r].answer.json
                 /\ VParse(dynamicSchema, req[r].answer.value).ok
                 /\ res[r].data = VParse(dynamicSchema, req[r].answer.value).out
                 /\ VParse(dynamicSchema, res[r].data) = [ok |-> TRUE, out |-> res[r].data]
                 /\ res[r].error = [kind |-> "null"]
        /\ res[r] # NoRes /\ ~Succeeded(r) =>
              /\ res[r].status \in {400, 401}
              /\ res[r].error # [kind |-> "null"]
              /\ res[r].data = JNull

\* a 200 response whose answer carried a field the template does not have:
\* the data is parse()'s output, without it
C9_Witness ==
    \E r \in Reqs :
        /\ Succeeded(r)
        /\ "age" \in OwnKeys(req[r].answer.value)
        /\ res[r].data = JObj([name |-> JStr("Jane")])

\* C10: a 200 response is sent after the usage insert and the credits update
\* have both landed; the row inserted, the amount taken off the balance read
\* and the response's tokensUsed are all the request's accumulated tokensUsed.
C10_State ==
    \A r \in Reqs :
        Succeeded(r) =>
            /\ req[r].inserted /\ req[r].updated
            /\ RowsOf(r) = {[used |-> req[r].tokensUsed, user_id |-> req[r].user_id,
                             request |-> r]}
            /\ res[r].tokensUsed = req[r].tokensUsed
            /\ req[r].tokensUsed = req[r].reported

C10_Step ==
    \A r \in Reqs :
        ~req[r].updated /\ req'[r].updated =>
            /\ ~Succeeded(r)
            /\ ToNumber(tokens'[req[r].user_id]) = BalanceRead(r) - req[r].tokensUsed
            /\ req'[r].tokensUsed = req[r].tokensUsed

C10_PersistThenRespond == []C10_State /\ [][C10_Step]_vars

\* a 200 response after a retry, with tokens of both attempts
C10_Witness ==
    \E r \in Reqs :
        /\ Succeeded(r)
        /\ calls[r].completions = 2
        /\ res[r].tokensUsed = 2 * MaxUsage

\* C11: the gate gives no mutual exclusion between the requests of a caller:
\* a request passes on the balance it read and its own estimate alone, so two
\* requests that read the same balance both proceed to generation although
\* their estimates together exceed that balance.
C11_GateIgnoresOthers ==
    \A r \in Reqs :
        ReachedGate(r) =>
            (calls[r].completions > 0 <=> BalanceRead(r) > Estimate(r))

\* two requests of one caller in generation at once, both having read the
\* same balance, which the sum of their estimates exceeds
C11_Witness ==
    \E r, o \in Reqs :
        /\ r # o
        /\ req[r].user_id = req[o].user_id
        /\ req[r].pc = "completion" /\ req[o].pc = "completion"
        /\ BalanceRead(r) = BalanceRead(o)
        /\ BalanceRead(r) > Estimate(r) /\ BalanceRead(o) > Estimate(o)
        /\ Estimate(r) + Estimate(o) > BalanceRead(r)

\* every attempt of the handler's retry was made and rejected
RetryExhausted(r) ==
    /\ calls[r].completions = HandlerRetries + 1
    /\ req[r].retries = 0
    /\ req[r].pc \notin {"completion", "pending", "persist"}
    /\ req[r].response = JUndef

\* C12: when every attempt of the retry has failed, the handler swallows the
\* error and returns without a response: no 200, no 400, no 401.
C12_ExhaustionSilent ==
    \A r \in Reqs :
        RetryExhausted(r) =>
            /\ req[r].pc = "done"
            /\ res[r] = NoRes
            /\ res[r].status \notin {200, 400, 401}

\* a request whose two attempts both failed and reported usage, returned
C12_Witness ==
    \E r \in Reqs :
        /\ RetryExhausted(r)
        /\ req[r].pc = "done"
        /\ req[r].reported = (HandlerRetries + 1) * MaxUsage
        /\ res[r] = NoRes

\* C13: the balance is read once and the gate evaluated once per request,
\* before the first completion call and never again between attempts: a
\* request that made a completion call has one balance read and one gate
\* evaluation, and that evaluation allowed it.
C13_GateOncePerRequest ==
    \A r \in Reqs :
        /\ calls[r].tokens <= 1
        /\ req[r].gates <= 1
        /\ calls[r].completions > 0 =>
              /\ calls[r].tokens = 1
              /\ req[r].gates = 1
              /\ GateAllows(BalanceRead(r), Estimate(r))

\* a request at its second attempt, after another request changed the
\* balance it had read: still one balance read and one gate evaluation
C13_Witness ==
    \E r \in Reqs :
        /\ calls[r].completions = HandlerRetries + 1
        /\ calls[r].tokens = 1
        /\ req[r].gates = 1
        /\ ToNumber(tokens[req[r].user_id]) # BalanceRead(r)

Terminal == {"Succeeded", "Exhausted"}

\* C14: when every run of the attempt calls resolve or reject, retry reaches
\* Succeeded or Exhausted and changes nothing afterwards; it is Exhausted
\* only after a reject at a budget of zero, with the error of that last
\* attempt.
C14_RetryTerminates ==
    /\ <>(drv.state \in Terminal)
    /\ [][drv.state \in Terminal => drv' = drv]_vars
    /\ [](drv.state = "Exhausted" =>
            /\ drv.retries = 0
            /\ drv.invoked = drv.maxRetries + 1
            /\ Len(drv.outcomes) = drv.invoked
            /\ drv.outcomes[Len(drv.outcomes)].signal = "reject"
            /\ drv.error = drv.outcomes[Len(drv.outcomes)].with)

\* retry(MaxRetries, attempt) exhausted, its last attempt having failed with
\* another error than its first
C14_Witness ==
    /\ drv.state = "Exhausted"
    /\ drv.maxRetries = MaxRetries
    /\ drv.outcomes[1].with = "transport"
    /\ drv.error = "schema"

\* the leaves the claims speak of: an example value of a primitive kind, or
\* a marker of one of the five kinds
ClaimLeaves == {JStr("x"), JNum(1), JBool(TRUE)} \cup {Marker(K) : K \in types}

\* C15: every leaf of a synthesized schema accepts null: the schema of a
\* primitive example value or of a {type: K} marker, K any of the five
\* kinds, parses null, alone or as a field of an object; the schema of
\* {name: "x", score: 1} parses {name: null, score: null}.
C15_NullTolerance ==
    syn.phase = "parsed" =>
        /\ syn.template \in ClaimLeaves /\ syn.value = JNull => syn.parsed.ok
        /\ \A l \in ClaimLeaves :
              syn.template = JObj([a |-> l]) /\ syn.value = JObj([a |-> JNull])
                  => syn.parsed.ok
        /\ (/\ syn.template = JObj([name |-> JStr("x"), score |-> JNum(1)])
            /\ syn.value = JObj([name |-> JNull, score |-> JNull]))
               => syn.parsed.ok

\* the kind of a node as the claim gives it, the marker's kind first
MarkedKind(node) ==
    LET m == node.fields["type"]
    IN IF m.t = "string" /\ m.v \in types THEN m.v ELSE "object"

HasMarker(node) == node.t = "object" /\ "type" \in DOMAIN node.fields

HasFirst(node) ==
    \/ node.t = "array" /\ Len(node.items) > 0
    \/ node.t = "object" /\ "0" \in DOMAIN node.fields

ElementZero(node) == IF node.t = "array" THEN node.items[1] ELSE node.fields["0"]

\* schema has the structure of the template node
RECURSIVE Mirrors(_, _)
Mirrors(node, schema) ==
    LET type == inferDataType(node)
    IN CASE type = "object" ->
              /\ schema.s = "object"
              /\ DOMAIN schema.shape = OwnKeys(node) \ {"type"}
              /\ \A key \in DOMAIN schema.shape :
                    Mirrors(node.fields[key], schema.shape[key])
         [] type = "array" ->
              /\ schema.s = "array"
              /\ IF HasFirst(node)
                 THEN Mirrors(ElementZero(node), schema.item)
                 ELSE schema.item = VNullable("string")
         [] OTHER ->
              /\ schema.s = "nullable"
              /\ schema.of = IF type \in {"string", "boolean", "number"}
                             THEN type ELSE "string"

C18_NoWritesUnlessSuccess ==
    \A r \in Reqs :
        req[r].pc \in {"done", "pending"} /\ res[r].status # 200 =>
            /\ NoWrites(r)
            /\ ~req[r].inserted
            /\ ~req[r].updated

\* a request whose two attempts consumed tokens and failed, beside one
\* answered 401: the ledger is empty and the balance the initial one
C18_Witness ==
    \E r, a \in Reqs :
        /\ RetryExhausted(r) /\ req[r].pc = "done"
        /\ req[r].reported = (HandlerRetries + 1) * MaxUsage
        /\ req[a].pc = "done" /\ res[a].status = 401
        /\ tokens_used = {}
        /\ tokens["u1"] = NumberToString(credits0)

\* C19: each 401 message is answered for its own cause only: "header not
\* found" only to an absent or wrongly sized header, "invalid key" only when
\* the key lookup found no row, "no subscription" only when there is no
\* credit record, "not enough credits" only when the gate denied; a failure
\* of a later stage, a thrown one too, never gets an earlier stage's message.
C19_MessageOnlyForOwnCause ==
    \A r \in Reqs :
        /\ res[r] = R401(HeaderNotFound) => HeaderRefused(req[r].header)
        /\ res[r] = R401(InvalidKey) => KeyUnknown(r)
        /\ res[r] = R401(NoSubscription) => NoCreditRecord(r)
        /\ res[r] = R401(NotEnoughCredits) => GateDenied(r)
        /\ req[r].threw # "" => res[r] # R401(HeaderNotFound)
====
